---- MODULE Spec2Model ----
(***************************************************************************)
(* Model of wfp/wfp_timestamp_correction.py: the four patchers             *)
(* process_a_file, process_c_file, process_e_file, process_m_file and the  *)
(* module-level driver loop.  Files are byte sequences, timestamps are     *)
(* 4-byte big-endian signed integers, datetimes are civil records.         *)
(* And of ingestions/ingest_csvs.py: main's loop over the rows of the      *)
(* ingest sheet and m2mSession's requests.                                 *)
(***************************************************************************)
EXTENDS Integers, Sequences, FiniteSets, TLC

VARIABLES
    disk,           \* the directory: file name <<prefix, number>> -> bytes
    orig,           \* the directory as it was before the run
    pc,             \* position of the caller / of the patcher being run
    cur,            \* prefix of the patcher being (or last) invoked
    profile_count,  \* the patchers' profile_count argument
    total_profile,  \* the driver's total_profile
    buf,            \* the bytearray a_file / c_file / e_file / m_file
    index,          \* the walk index of process_e_file / process_m_file
    package_size,   \* process_m_file's package_size
    examined,       \* timestamp fields unpacked by the current invocation
    wlog,           \* names opened with 'wb' and written, in order
    calls,          \* patcher invocations, in order
    runs,           \* invocations made by the direct caller
    first,          \* what the first of two successive invocations left
    passes,         \* passes made of the body of a walk's loop
    time_bytes,     \* the codec alone: the 4 bytes of a field
    time_stamp,     \* the codec alone: the datetime decoded from them
    new_time_bytes, \* the codec alone: the outcome of packing the datetime
    args,           \* ingest_csvs: the parsed command line
    df,             \* ingest_csvs: the rows of the ingest sheet
    row,            \* ingest_csvs: position of main's loop in df
    sent,           \* ingest_csvs: requests made of the API, in order
    printed,        \* ingest_csvs: what was printed, in order
    ingest_df,      \* ingest_csvs: the rows of results
    ingested_csv    \* ingest_csvs: the results CSV written at the end

vars == <<disk, orig, pc, cur, profile_count, total_profile, buf, index,
          package_size, examined, wlog, calls, runs, first, passes,
          time_bytes, time_stamp, new_time_bytes,
          args, df, row, sent, printed, ingest_df, ingested_csv>>

-----------------------------------------------------------------------------
(* Bounds of the model *)

\* invocations of one patcher in succession by the direct caller
MaxRuns == 2
\* largest number of filler bytes put in front of an A-file's stop time
MaxPad == 2
\* largest profile number of a file in a driver directory
MaxProfile == 1
\* passes of the body of a walk's loop that are followed
MaxPasses == 80

-----------------------------------------------------------------------------
(* Program constants *)

\* profile_count <= 178
GateProfile == 178
\* datetime(2018,1,1)
ThresholdYear == 2018
\* relativedelta(years=80)
YearsAdded == 80
\* while len(m_file)-index > 64
TailBytes == 64
\* index += 30
TelemetryStride == 30
\* index+=8 twice
MessageHalfStride == 8
\* c_file.find(bytearray.fromhex('ffffffffffffffffffffff'))
SentinelLen == 11

-----------------------------------------------------------------------------
(* bytearray slicing *)

Min(a, b) == IF a < b THEN a ELSE b
Max(a, b) == IF a < b THEN b ELSE a

\* Python's normalisation of a slice bound against a length
Norm(i, n) == IF i < 0 THEN Max(i + n, 0) ELSE Min(i, n)

\* s[a:b]
Slice(s, a, b) ==
    LET lo == Norm(a, Len(s))
        hi == Norm(b, Len(s))
    IN  IF hi <= lo THEN <<>> ELSE SubSeq(s, lo + 1, hi)

\* s[a:b] = new, with the slice replaced by nothing: the new bytes are inserted
SliceInsert(s, a, b, new) ==
    LET lo == Norm(a, Len(s))
    IN  SubSeq(s, 1, lo) \o new \o SubSeq(s, lo + 1, Len(s))

\* s[a:b] = new
SliceAssign(s, a, b, new) ==
    LET lo == Norm(a, Len(s))
        hi == Max(Norm(b, Len(s)), lo)
    IN  SubSeq(s, 1, lo) \o new \o SubSeq(s, hi + 1, Len(s))

\* k bytes of value b
Fill(k, b) == [i \in 1..k |-> b]

-----------------------------------------------------------------------------
(* struct.pack / struct.unpack *)

\* the four bytes of the two's complement big-endian form of n
BE4(n) == << (n \div 16777216) % 256, (n \div 65536) % 256,
             (n \div 256) % 256, n % 256 >>

\* the signed value of a top byte
Signed8(b) == IF b >= 128 THEN b - 256 ELSE b

\* unpack('>i', bs): struct.error unless bs has exactly 4 bytes
unpack_i(bs) ==
    IF Len(bs) # 4
    THEN [ok |-> FALSE, val |-> 0]
    ELSE [ok |-> TRUE,
          val |-> ((Signed8(bs[1]) * 256 + bs[2]) * 256 + bs[3]) * 256 + bs[4]]

\* unpack('>H', bs): struct.error unless bs has exactly 2 bytes
unpack_H(bs) ==
    IF Len(bs) # 2
    THEN [ok |-> FALSE, val |-> 0]
    ELSE [ok |-> TRUE, val |-> bs[1] * 256 + bs[2]]

-----------------------------------------------------------------------------
(* datetime, timedelta, relativedelta *)

IsLeap(y) == (y % 4 = 0 /\ y % 100 # 0) \/ y % 400 = 0

\* the length of month m of a common year
DaysInMonthCommon(y, m) ==
    IF m = 2 THEN 28 ELSE IF m \in {4, 6, 9, 11} THEN 30 ELSE 31

\* calendar.monthrange(y, m)[1]
DaysInMonth(y, m) ==
    IF m = 2 THEN (IF IsLeap(y) THEN 29 ELSE 28)
    ELSE IF m \in {4, 6, 9, 11} THEN 30 ELSE 31

\* the same count in a calendar with a leap year every fourth year
DaysFromMarchJulian(yy, mp, d) ==
    (yy \div 400) * 146097
        + (yy % 400) * 365 + (yy % 400) \div 4
        + (153 * mp + 2) \div 5 + d - 1 - 719468

\* days from 1970-01-01 to a date given by its year counted from March, its
\* month counted from March and its day
DaysFromMarch(yy, mp, d) ==
    (yy \div 400) * 146097
        + (yy % 400) * 365 + (yy % 400) \div 4 - (yy % 400) \div 100
        + (153 * mp + 2) \div 5 + d - 1 - 719468

\* days from 1970-01-01 to the civil date y-m-d (proleptic Gregorian)
DaysFromCivil(y, m, d) ==
    DaysFromMarch(IF m <= 2 THEN y - 1 ELSE y, IF m > 2 THEN m - 3 ELSE m + 9, d)

\* the civil date of a day count from 1970-01-01, with the seconds of the
\* day: from the 400-year era and the day of the era, then the year of the
\* era, then the day of the year (from 1 March), then the month (from March)
CivilOfMonth(era, yoe, doy, mp, secs) ==
    [year  |-> yoe + era * 400 + (IF mp < 10 THEN 0 ELSE 1),
     month |-> IF mp < 10 THEN mp + 3 ELSE mp - 9,
     day   |-> doy - (153 * mp + 2) \div 5 + 1,
     secs  |-> secs]

CivilOfDayOfYear(era, yoe, doy, secs) ==
    CivilOfMonth(era, yoe, doy, (5 * doy + 2) \div 153, secs)

CivilOfYear(era, doe, yoe, secs) ==
    CivilOfDayOfYear(era, yoe, doe - (365 * yoe + yoe \div 4 - yoe \div 100), secs)

CivilOfEra(era, doe, secs) ==
    CivilOfYear(era, doe,
                (doe - doe \div 1460 + doe \div 36524 - doe \div 146096) \div 365,
                secs)

CivilFromDays(z0, secs) ==
    CivilOfEra((z0 + 719468) \div 146097, (z0 + 719468) % 146097, secs)

\* d + timedelta(seconds=n), d = 1970-01-01: a datetime
Decode(n) == CivilFromDays(n \div 86400, n % 86400)

\* t < datetime(y,1,1)
BeforeYear(t, y) == t.year < y

\* t < datetime(2018,1,1)
Before2018(t) == BeforeYear(t, ThresholdYear)

\* a tenth of the years added
AddYearsTenth(t, k) ==
    [year |-> t.year + k \div 10, month |-> t.month,
     day |-> Min(t.day, DaysInMonth(t.year + k \div 10, t.month)), secs |-> t.secs]

\* t + relativedelta(years=k): the day is clamped to the month's length
AddYears(t, k) ==
    [year |-> t.year + k, month |-> t.month,
     day |-> Min(t.day, DaysInMonth(t.year + k, t.month)), secs |-> t.secs]

\* int((t - epoch).total_seconds()) as whole days and seconds of the day
EpochDays(t) == DaysFromCivil(t.year, t.month, t.day)

\* pack('>i', n) for n = dd * 86400 + secs: struct.error unless
\* -2147483648 <= n <= 2147483647
pack_seconds(dd, secs) ==
    IF dd > 24855 \/ (dd = 24855 /\ secs > 11647)
       \/ dd < -24856 \/ (dd = -24856 /\ secs < 74752)
    THEN [ok |-> FALSE, bytes |-> <<>>]
    ELSE [ok |-> TRUE,
          bytes |-> BE4(IF dd < 0
                        THEN (dd + 1) * 86400 + (secs - 86400)
                        ELSE dd * 86400 + secs)]

\* pack('>i', int((t - epoch).total_seconds()))
pack_i(t) == pack_seconds(EpochDays(t), t.secs)

-----------------------------------------------------------------------------
(* The block every patcher repeats for a field: unpack, decode, compare with *)
(* the threshold, add the years, pack, assign the slice                      *)

\* field is the slice read, a and e the bounds of the slice assigned, gate the
\* extra condition of the if (TRUE except in process_a_file); a field is
\* logged with its offset, the value unpacked (was), the value its bytes hold
\* after the block (now) and whether the condition of the if held (hit)
\* the end of the block: rec is the field as logged, p the packed new value
PatchPacked(b, a, e, rec, p) ==
    IF ~rec.hit
    THEN [raised |-> FALSE, buf |-> b, log |-> <<rec>>]
    ELSE IF ~p.ok
    THEN [raised |-> TRUE, buf |-> b, log |-> <<rec>>]
    ELSE [raised |-> FALSE, buf |-> SliceAssign(b, a, e, p.bytes),
          log |-> <<[rec EXCEPT !.now = unpack_i(p.bytes).val]>>]

\* the block from the comparison on: t is the decoded datetime of val
PatchDecoded(b, a, e, gate, val, t) ==
    PatchPacked(b, a, e,
                [off |-> Norm(a, Len(b)), was |-> val, now |-> val,
                 hit |-> Before2018(t) /\ gate],
                pack_i(AddYears(t, YearsAdded)))

\* the block after the unpack
PatchUnpacked(b, a, e, gate, u) ==
    IF ~u.ok
    THEN [raised |-> TRUE, buf |-> b, log |-> <<>>]
    ELSE PatchDecoded(b, a, e, gate, u.val, Decode(u.val))

Patch(b, field, a, e, gate) == PatchUnpacked(b, a, e, gate, unpack_i(field))

\* the block on the field b[at:at+4]
PatchAt(b, at) == Patch(b, Slice(b, at, at + 4), at, at + 4, TRUE)

\* the outcome of two blocks in sequence from the outcomes of each; the
\* second is not reached when the first raised
Sequenced(r1, r2) ==
    IF r1.raised THEN r1
    ELSE [raised |-> r2.raised, buf |-> r2.buf, log |-> r1.log \o r2.log]

\* the second block on the buffer the first one left
PatchNext(r1, a2) == Sequenced(r1, PatchAt(r1.buf, a2))

\* two such blocks in sequence, each field read from the buffer as it is then
Patch2(b, a1, a2) == PatchNext(PatchAt(b, a1), a2)

\* the log of examined fields with the entries of one more block appended; a
\* field examined again and again with the same outcome (a walk that does not
\* advance) is logged twice and no more, so that the log stays finite
Logged(ex, recs) ==
    IF recs # <<>> /\ Len(ex) >= 2 /\ ex[Len(ex)] = recs[1] /\ ex[Len(ex) - 1] = recs[1]
    THEN ex
    ELSE ex \o recs

\* 'A'+str(profile_count).rjust(7,'0')+'.DAT' and its like
FileName(prefix, n) == <<prefix, n>>

Present(d, name) == name \in DOMAIN d

\* open(file, 'wb'); write(b); close()
WriteFile(name, b) ==
    /\ disk' = [x \in DOMAIN disk \cup {name} |-> IF x = name THEN b ELSE disk[x]]
    /\ wlog' = Append(wlog, name)

\* a patcher that saves its buffer to the file at every step
WriteAsItGoes ==
    IF buf # <<>> /\ Present(disk, FileName(cur, profile_count))
    THEN WriteFile(FileName(cur, profile_count), buf)
    ELSE UNCHANGED <<disk, wlog>>

NoWrite == UNCHANGED <<disk, wlog>>

\* what no patcher step changes
Caller == <<orig, cur, profile_count, total_profile, calls, runs, first,
            time_bytes, time_stamp, new_time_bytes,
            args, df, row, sent, printed, ingest_df, ingested_csv>>

-----------------------------------------------------------------------------
(* process_a_file *)

\* the block on acm_stop_time, a_file[-4::]
a_patch(a_file, n) ==
    Patch(a_file, Slice(a_file, -4, Len(a_file)), -4, Len(a_file), n <= GateProfile)

process_a_file ==
    /\ pc = "call" /\ cur = "A"
    /\ LET name == FileName("A", profile_count)
       IN  IF ~Present(disk, name)
           THEN /\ pc' = "returned"
                /\ NoWrite
                /\ UNCHANGED <<buf, examined>>
           ELSE \E r \in {a_patch(disk[name], profile_count)} :
                    /\ buf' = r.buf
                    /\ examined' = r.log
                    /\ pc' = IF r.raised THEN "raised" ELSE "returned"
                    /\ IF ~r.raised /\ r.log[1].hit
                       THEN WriteFile(name, r.buf)
                       ELSE NoWrite
    /\ UNCHANGED <<index, package_size, passes>>
    /\ UNCHANGED Caller

-----------------------------------------------------------------------------
(* process_c_file *)

\* bytearray.fromhex('ffffffffffffffffffffff')
Sentinel == Fill(SentinelLen, 255)

\* s.find(pat): the lowest 0-based offset at which pat occurs in s, or -1
Least(at) == IF at = {} THEN -1 ELSE CHOOSE i \in at : \A j \in at : i <= j

Find(s, pat) ==
    Least({i \in 0..(Len(s) - Len(pat)) : SubSeq(s, i + 1, i + Len(pat)) = pat})

\* the block on stop_time, whose bytes were sliced from the file as read
c_patch_stop(r1, sensor_stop_time_bytes, o2) ==
    Sequenced(r1, Patch(r1.buf, sensor_stop_time_bytes, o2, o2 + 4, TRUE))

\* the blocks on start_time and stop_time, at 11 and 15 from end_of_file_index
c_patch(c_file, end_of_file_index) ==
    c_patch_stop(Patch(c_file,
                       Slice(c_file, end_of_file_index + SentinelLen,
                             end_of_file_index + SentinelLen + 4),
                       end_of_file_index + SentinelLen,
                       end_of_file_index + SentinelLen + 4, TRUE),
                 Slice(c_file, end_of_file_index + SentinelLen + 4,
                       end_of_file_index + SentinelLen + 8),
                 end_of_file_index + SentinelLen + 4)

process_c_file ==
    /\ pc = "call" /\ cur = "C"
    /\ LET name == FileName("C", profile_count)
       IN  IF ~Present(disk, name)
           THEN /\ pc' = "returned"
                /\ NoWrite
                /\ UNCHANGED <<buf, examined>>
           ELSE \E r \in {c_patch(disk[name], Find(disk[name], Sentinel))} :
                    /\ buf' = r.buf
                    /\ examined' = r.log
                    /\ pc' = IF r.raised THEN "raised" ELSE "returned"
                    /\ IF r.raised THEN NoWrite ELSE WriteFile(name, r.buf)
    /\ UNCHANGED <<index, package_size, passes>>
    /\ UNCHANGED Caller

-----------------------------------------------------------------------------
(* process_e_file *)

\* bytearray.fromhex('fffffffe') ... bytearray.fromhex('fffffffa')
profile_message_code ==
    { <<255, 255, 255, 254>>, <<255, 255, 255, 253>>, <<255, 255, 255, 252>>,
      <<255, 255, 255, 251>>, <<255, 255, 255, 250>> }

\* bytearray.fromhex('ffffffff')
EndMarker == <<255, 255, 255, 255>>

\* the code and an 8-byte payload
MessageStride12 == MessageHalfStride + 4

\* index+=8 ... index+=8 : the stride of a record that starts with a message code
MessageStride == MessageHalfStride + MessageHalfStride

\* the open and the two header fields at [16:20] and [20:24]; index = 24
process_e_file_begin ==
    /\ pc = "call" /\ cur = "E"
    /\ LET name == FileName("E", profile_count)
       IN  IF ~Present(disk, name)
           THEN /\ pc' = "returned"
                /\ UNCHANGED <<buf, examined, index>>
           ELSE \E r \in {Patch2(disk[name], 16, 20)} :
                    /\ buf' = r.buf
                    /\ examined' = r.log
                    /\ index' = 24
                    /\ pc' = IF r.raised THEN "raised" ELSE "E_loop"
    /\ NoWrite
    /\ UNCHANGED <<package_size, passes>>
    /\ UNCHANGED Caller

\* the while condition of the record walk
e_walk_goes_on(b, i) == Slice(b, i, i + 4) # EndMarker /\ Len(b) > i

\* one evaluation of the while condition and, if it holds, one pass of the body
process_e_file_walk ==
    /\ pc = "E_loop"
    /\ IF ~e_walk_goes_on(buf, index)
       THEN /\ pc' = "E_tail"
            /\ UNCHANGED <<buf, examined, index>>
       ELSE IF Slice(buf, index, index + 4) \in profile_message_code
       THEN \E r \in {PatchAt(buf, index + MessageHalfStride)} :
                /\ buf' = r.buf
                /\ examined' = Logged(examined, r.log)
                /\ index' = IF r.raised THEN index + MessageHalfStride
                            ELSE index + MessageStride
                /\ pc' = IF r.raised THEN "raised" ELSE "E_loop"
       ELSE \E r \in {PatchAt(buf, index)} :
                /\ buf' = r.buf
                /\ examined' = Logged(examined, r.log)
                /\ index' = IF r.raised THEN index ELSE index + TelemetryStride
                /\ pc' = IF r.raised THEN "raised" ELSE "E_loop"
    /\ IF e_walk_goes_on(buf, index)
       THEN passes < MaxPasses /\ passes' = passes + 1
       ELSE passes' = passes
    /\ NoWrite
    /\ UNCHANGED package_size
    /\ UNCHANGED Caller

\* the trailing vehicle_end_time and sensor_end_time, and the write
process_e_file_end ==
    /\ pc = "E_tail"
    /\ LET name == FileName("E", profile_count)
       IN  IF Len(buf) > index
           THEN \E r \in {Patch2(buf, index + 8, index + 12)} :
                    /\ buf' = r.buf
                    /\ examined' = Logged(examined, r.log)
                    /\ index' = index + 8
                    /\ pc' = IF r.raised THEN "raised" ELSE "returned"
                    /\ IF r.raised THEN NoWrite ELSE WriteFile(name, r.buf)
           ELSE /\ pc' = "returned"
                /\ WriteFile(name, buf)
                /\ UNCHANGED <<buf, examined, index>>
    /\ UNCHANGED <<package_size, passes>>
    /\ UNCHANGED Caller

-----------------------------------------------------------------------------
(* process_m_file *)

\* the open, package_size = unpack('>H', m_file[0:2])[0], index = 2
process_m_file_begin ==
    /\ pc = "call" /\ cur = "M"
    /\ LET name == FileName("M", profile_count)
       IN  IF ~Present(disk, name)
           THEN /\ pc' = "returned"
                /\ UNCHANGED <<buf, examined, index, package_size>>
           ELSE \E u \in {unpack_H(Slice(disk[name], 0, 2))} :
                    /\ buf' = disk[name]
                    /\ examined' = <<>>
                    /\ index' = 2
                    /\ package_size' = u.val
                    /\ pc' = IF u.ok THEN "M_loop" ELSE "raised"
    /\ NoWrite
    /\ UNCHANGED passes
    /\ UNCHANGED Caller

\* a walk that goes on with exactly 64 bytes left
m_walk_goes_on_at_64(b, i) == Len(b) - i >= TailBytes

\* the while condition of the record walk
m_walk_goes_on(b, i) == Len(b) - i > TailBytes

\* one evaluation of the while condition and, if it holds, one pass of the body
process_m_file_walk ==
    /\ pc = "M_loop"
    /\ IF m_walk_goes_on(buf, index)
       THEN \E r \in {PatchAt(buf, index)} :
                /\ buf' = r.buf
                /\ examined' = Logged(examined, r.log)
                /\ index' = IF r.raised THEN index ELSE index + package_size
                /\ pc' = IF r.raised THEN "raised" ELSE "M_loop"
       ELSE /\ pc' = "M_tail"
            /\ UNCHANGED <<buf, examined, index>>
    /\ IF m_walk_goes_on(buf, index)
       THEN passes < MaxPasses /\ passes' = passes + 1
       ELSE passes' = passes
    /\ NoWrite
    /\ UNCHANGED package_size
    /\ UNCHANGED Caller

\* index+=package_size, the trailing motion_start_time and motion_end_time,
\* and the write
process_m_file_end ==
    /\ pc = "M_tail"
    /\ LET name == FileName("M", profile_count)
           at   == index + package_size
       IN  IF Len(buf) > at
           THEN \E r \in {Patch2(buf, at, at + 4)} :
                    /\ buf' = r.buf
                    /\ examined' = Logged(examined, r.log)
                    /\ pc' = IF r.raised THEN "raised" ELSE "returned"
                    /\ IF r.raised THEN NoWrite ELSE WriteFile(name, r.buf)
           ELSE /\ pc' = "returned"
                /\ WriteFile(name, buf)
                /\ UNCHANGED <<buf, examined>>
    /\ index' = index + package_size
    /\ UNCHANGED <<package_size, passes>>
    /\ UNCHANGED Caller

\* the steps of the four patchers
Patcher ==
    \/ process_a_file
    \/ process_c_file
    \/ process_e_file_begin
    \/ process_e_file_walk
    \/ process_e_file_end
    \/ process_m_file_begin
    \/ process_m_file_walk
    \/ process_m_file_end

-----------------------------------------------------------------------------
(* Input files *)

Prefixes == {"A", "C", "E", "M"}

\* field values: 1901-12-13T20:45:52 (the least), 1937-12-31T23:59:59,
\* 1938-01-01, 1940-01-01, 1940-02-29,
\* 1958-01-19T03:14:07 (the last whose 80 years later fits 32 bits) and the
\* second after it, 1970-01-01, 2017-12-31T23:59:59, 2018-01-01, 2020-01-01
T1901 == -2147483647 - 1
T1938 == DaysFromCivil(1938, 1, 1) * 86400
T1937Last == T1938 - 1
T1940 == DaysFromCivil(1940, 1, 1) * 86400
T1940Leap == DaysFromCivil(1940, 2, 29) * 86400
T1958 == DaysFromCivil(1958, 1, 19) * 86400 + 11647
T1958Next == T1958 + 1
T1970 == DaysFromCivil(1970, 1, 1) * 86400
T2018 == DaysFromCivil(2018, 1, 1) * 86400
T2017Last == T2018 - 1
T2020 == DaysFromCivil(2020, 1, 1) * 86400

AWords == {T1901, T1937Last, T1938, T1940, T1940Leap, T1958, T1958Next, T1970, T2017Last, T2018, T2020}
Words == {T1940, T1970, T2020}

\* a filler byte that no patcher takes for part of an early timestamp:
\* the largest byte with the sign bit clear
Pad == 2^7 - 1

\* stop time as the last 4 bytes; files too short to hold it
AFiles ==
    {Fill(k, Pad) \o BE4(w) : k \in 0..MaxPad, w \in AWords}
        \cup {Fill(k, Pad) : k \in 0..3}

\* data, the sentinel, start time, stop time; files cut short after the
\* sentinel; files without a sentinel
CFiles ==
    {pre \o Sentinel \o BE4(w1) \o BE4(w2) \o post :
        pre \in {<<>>, <<1, 2>>, <<1, 255>>}, w1 \in Words \cup {T1901},
        w2 \in Words \cup {T1901}, post \in {<<>>, <<Pad>>}}
        \cup {Sentinel, Sentinel \o BE4(T1940), Sentinel \o BE4(T1940) \o <<1, 2>>}
        \cup {Fill(10, 0) \o BE4(w1) \o BE4(w2) : w1 \in Words, w2 \in Words}
        \cup {Fill(k, Pad) : k \in {0, 12}}

\* records in front of the end marker of an E-file
MaxRecords == 2

\* a record that starts with a message code: the code, 4 bytes, the
\* timestamp, 4 bytes
MessageRecord(w) == <<255, 255, 255, 254>> \o Fill(4, Pad) \o BE4(w) \o Fill(4, Pad)
\* the same without the last 4 bytes
MessageRecord12(w) == <<255, 255, 255, 250>> \o Fill(4, Pad) \o BE4(w)
\* a telemetry record: the timestamp and 26 bytes
TelemetryRecord(w) == BE4(w) \o Fill(26, Pad)

ERecords == {MessageRecord(w) : w \in Words} \cup {TelemetryRecord(w) : w \in Words}

RECURSIVE Streams(_, _)
\* the concatenations of at most n records of the set recs
Streams(recs, n) ==
    IF n = 0 THEN {<<>>}
    ELSE LET shorter == Streams(recs, n - 1)
         IN  shorter \cup {s \o r : s \in shorter, r \in recs}

EHeader(w1, w2) == Fill(16, Pad) \o BE4(w1) \o BE4(w2)

EHeaders == {EHeader(T1940, T1940), EHeader(T2020, T2020),
             EHeader(T1940, T2020), EHeader(T1970, T1940)}

\* nothing, the end marker alone, the end marker with 4 bytes and the two
\* trailing fields
ETails ==
    {<<>>, EndMarker}
        \cup {EndMarker \o Fill(4, Pad) \o BE4(w1) \o BE4(w2) :
                w1 \in {T1940, T2020}, w2 \in Words}

\* header fields 16 and 20, message-code record, telemetry record, end marker
\* as the last 4 bytes: with the message-code record of 16 bytes and of 12 bytes
RefE16 == EHeader(T1940, T1940) \o MessageRecord(T1940) \o TelemetryRecord(T1940)
              \o EndMarker
RefE12 == EHeader(T1940, T1940) \o MessageRecord12(T1940) \o TelemetryRecord(T1940)
              \o EndMarker

EFiles ==
    {h \o s \o t : h \in EHeaders, s \in Streams(ERecords, MaxRecords), t \in ETails}
        \cup {RefE16, RefE12}
        \cup {Fill(k, Pad) : k \in {0, 18, 22, 26}}

\* records after the size field of an M-file
MaxRecordsM == 3

BE2(n) == << (n \div 256) % 256, n % 256 >>

\* a record of r bytes with the timestamp in front (cut to r bytes)
MRecord(r, w) == SubSeq(BE4(w) \o Fill(r, Pad), 1, r)

MSizes == {4, 30, 60}

\* the size, records of that size, and nothing, 4 or 5 bytes or the two trailing
\* fields after them; some files of sizes 0 and 1; files too short
MFiles ==
    UNION {{BE2(r) \o s \o t :
              s \in Streams({MRecord(r, w) : w \in Words}, MaxRecordsM),
              t \in {<<>>, Fill(4, Pad), Fill(5, Pad)}
                     \cup {BE4(w1) \o BE4(w2) : w1 \in {T1940, T2020}, w2 \in Words}} :
           r \in MSizes}
        \cup {BE2(0) \o BE4(w) \o Fill(k, Pad) : w \in {T1940, T2020}, k \in {60, 64}}
        \cup {BE2(1) \o BE4(w) \o Fill(64, Pad) : w \in {T1940, T2020}}
        \cup {<<>>, <<0>>, <<0, 8>>, <<0, 1, 0>>}

Files(prefix) ==
    CASE prefix = "A" -> AFiles
      [] prefix = "C" -> CFiles
      [] prefix = "E" -> EFiles
      [] prefix = "M" -> MFiles

\* the profile numbers a patcher is tried with by a direct caller
TestProfiles(prefix) ==
    IF prefix = "A" THEN {GateProfile - 1, GateProfile, GateProfile + 1} ELSE {0}

NoFiles == [x \in {} |-> <<>>]
OneFile(name, bytes) == [x \in {name} |-> bytes]

NoRun == [disk |-> NoFiles, examined |-> <<>>, pc |-> "none"]

\* no datetime
NoStamp == [year |-> 0, month |-> 0, day |-> 0, secs |-> 0]
\* nothing packed
NotPacked == [ok |-> FALSE, bytes |-> <<>>]

\* the variables of the codec taken alone
Codec == <<time_bytes, time_stamp, new_time_bytes>>

\* the codec taken alone is not used
CodecIdle ==
    /\ time_bytes = <<>>
    /\ time_stamp = NoStamp
    /\ new_time_bytes = NotPacked

\* no command line
NoArgs == [debug |-> FALSE, default_review |-> FALSE, am_dates |-> FALSE]
\* no results CSV
NotWritten == [written |-> FALSE, rows |-> <<>>]

\* the variables of ingest_csvs
Ingest == <<args, df, row, sent, printed, ingest_df, ingested_csv>>

\* ingest_csvs is not used
IngestIdle ==
    /\ args = NoArgs
    /\ df = <<>>
    /\ row = 0
    /\ sent = <<>>
    /\ printed = <<>>
    /\ ingest_df = <<>>
    /\ ingested_csv = NotWritten

-----------------------------------------------------------------------------
(* A direct caller: one patcher invoked on a directory that holds its file *)
(* or not, then invoked again                                              *)

TestInit ==
    /\ \E prefix \in Prefixes :
         \E n \in TestProfiles(prefix) :
           /\ cur = prefix
           /\ profile_count = n
           /\ \/ disk = NoFiles
              \/ \E bytes \in Files(prefix) : disk = OneFile(FileName(prefix, n), bytes)
    /\ orig = disk
    /\ pc = "idle"
    /\ total_profile = 0
    /\ buf = <<>>
    /\ index = 0
    /\ package_size = 0
    /\ examined = <<>>
    /\ wlog = <<>>
    /\ calls = <<>>
    /\ runs = 0
    /\ first = NoRun
    /\ passes = 0
    /\ CodecIdle
    /\ IngestIdle

\* entering a patcher: its locals are fresh
Enter ==
    /\ pc' = "call"
    /\ calls' = Append(calls, FileName(cur', profile_count'))
    /\ buf' = <<>>
    /\ index' = 0
    /\ package_size' = 0
    /\ examined' = <<>>
    /\ passes' = 0

Invoke ==
    /\ pc = "idle"
    /\ runs' = 1
    /\ UNCHANGED <<cur, profile_count>>
    /\ Enter
    /\ UNCHANGED <<disk, orig, total_profile, wlog, first>>
    /\ UNCHANGED Codec
    /\ UNCHANGED Ingest

\* the same call again after the patcher returned or raised
Reinvoke ==
    /\ pc \in {"returned", "raised"}
    /\ runs < MaxRuns
    /\ runs' = runs + 1
    /\ first' = IF runs = 1
                THEN [disk |-> disk, examined |-> examined, pc |-> pc]
                ELSE first
    /\ UNCHANGED <<cur, profile_count>>
    /\ Enter
    /\ UNCHANGED <<disk, orig, total_profile, wlog>>
    /\ UNCHANGED Codec
    /\ UNCHANGED Ingest

Next == Invoke \/ Reinvoke \/ Patcher

Spec == TestInit /\ [][Next]_vars

-----------------------------------------------------------------------------
(* The driver: the module-level scan of the directory and the loop over the *)
(* profile numbers                                                          *)

\* a file its patcher corrects and writes, and one on which it raises
GoodFile(prefix) ==
    CASE prefix = "A" -> <<Pad>> \o BE4(T1940)
      [] prefix = "C" -> <<1, 2>> \o Sentinel \o BE4(T1940) \o BE4(T2020)
      [] prefix = "E" -> EHeader(T1940, T2020) \o MessageRecord(T1940)
                            \o TelemetryRecord(T1940) \o EndMarker \o Fill(4, Pad)
                            \o BE4(T1940) \o BE4(T2020)
      [] prefix = "M" -> BE2(30) \o MRecord(30, T1940) \o MRecord(30, T2020)
                            \o MRecord(30, T1940) \o BE4(T1940) \o BE4(T2020)

BadFile(prefix) ==
    CASE prefix = "A" -> <<Pad>> \o BE4(T1970)
      [] prefix = "C" -> <<1, 2>> \o Sentinel \o BE4(T1940)
      [] prefix = "E" -> Fill(18, Pad)
      [] prefix = "M" -> <<0>>

\* what a directory holds for one profile number: for each prefix a good
\* file, a bad file or none; at most one bad and one missing, or nothing
Kits ==
    {k \in [Prefixes -> {"good", "bad", "none"}] :
        \/ \A x \in Prefixes : k[x] = "none"
        \/ /\ Cardinality({x \in Prefixes : k[x] = "bad"}) <= 1
           /\ Cardinality({x \in Prefixes : k[x] = "none"}) <= 1}

\* the directory that holds kit[n] for every profile number n
Directory(kit) ==
    [name \in {nm \in {FileName(x, n) : x \in Prefixes, n \in DOMAIN kit} :
                  kit[nm[2]][nm[1]] # "none"}
        |-> IF kit[name[2]][name[1]] = "good" THEN GoodFile(name[1])
            ELSE BadFile(name[1])]

Directories == {Directory(kit) : kit \in [0..MaxProfile -> Kits]}

\* a file of another instrument, whose name glob's '?*[0-9].DAT' matches as
\* well: X0000000.DAT, ..., or none
Strays ==
    {NoFiles} \cup {OneFile(FileName("X", n), <<Pad>>) : n \in 0..(MaxProfile + 1)}

DriverInit ==
    /\ \E d \in Directories : \E stray \in Strays : disk = d @@ stray
    /\ orig = disk
    /\ pc = "scan"
    /\ cur = "A"
    /\ profile_count = 0
    /\ total_profile = 0
    /\ buf = <<>>
    /\ index = 0
    /\ package_size = 0
    /\ examined = <<>>
    /\ wlog = <<>>
    /\ calls = <<>>
    /\ runs = 0
    /\ first = NoRun
    /\ passes = 0
    /\ CodecIdle
    /\ IngestIdle

\* the numbers in the names glob.glob('?*[0-9].DAT') finds
file_list(d) == {name[2] : name \in DOMAIN d}

\* max(file_list)
Largest(ns) == CHOOSE n \in ns : \A m \in ns : m <= n

\* the scan and the entry into the loop; max() of an empty list raises
driver_scan ==
    /\ pc = "scan"
    /\ IF file_list(disk) = {}
       THEN /\ pc' = "crashed"
            /\ UNCHANGED <<cur, profile_count, total_profile, buf, index,
                           package_size, examined, calls, passes>>
       ELSE /\ total_profile' = Largest(file_list(disk))
            /\ profile_count' = 0
            /\ cur' = "A"
            /\ Enter
    /\ UNCHANGED <<disk, orig, wlog, runs, first>>
    /\ UNCHANGED Codec
    /\ UNCHANGED Ingest

\* after a patcher returned or raised: only process_c_file is called in a
\* try, so another patcher's exception ends the script
driver_loop ==
    /\ pc \in {"returned", "raised"}
    /\ IF pc = "raised" /\ cur # "C"
       THEN /\ pc' = "crashed"
            /\ UNCHANGED <<cur, profile_count, buf, index, package_size,
                           examined, calls, passes>>
       ELSE IF cur = "M" /\ profile_count = total_profile
       THEN /\ pc' = "done"
            /\ UNCHANGED <<cur, profile_count, buf, index, package_size,
                           examined, calls, passes>>
       ELSE /\ cur' = CASE cur = "A" -> "C"
                        [] cur = "C" -> "E"
                        [] cur = "E" -> "M"
                        [] cur = "M" -> "A"
            /\ profile_count' = IF cur = "M" THEN profile_count + 1
                                ELSE profile_count
            /\ Enter
    /\ UNCHANGED <<disk, orig, total_profile, wlog, runs, first>>
    /\ UNCHANGED Codec
    /\ UNCHANGED Ingest

DriverNext == driver_scan \/ driver_loop \/ Patcher

DriverSpec == DriverInit /\ [][DriverNext]_vars

-----------------------------------------------------------------------------
(* The codec taken alone: the lines that decode a field (unpack, d +        *)
(* timedelta), add the years when the instant is before 2018, and encode    *)
(* (total_seconds, pack), applied to 4 bytes                                *)

\* the first and the last second of 29 February of the leap years 1904..2036
LeapDayWords ==
    {DaysFromCivil(1904 + 4 * k, 2, 29) * 86400 + sec : k \in 0..33, sec \in {0, 86399}}

\* the last second of a year and the first of the next, 1902..2038
NewYearWords ==
    {DaysFromCivil(y, 1, 1) * 86400 - sec : y \in 1902..2038, sec \in {0, 1}}

\* the least and the largest signed 32-bit values, -1, 0 and 1
ExtremeWords == {T1901, T1901 + 1, -1, 0, 1, 2147483646, 2147483646 + 1}

CodecWords == LeapDayWords \cup NewYearWords \cup ExtremeWords \cup AWords

CodecInit ==
    /\ time_bytes \in {BE4(n) : n \in CodecWords}
    /\ time_stamp = NoStamp
    /\ new_time_bytes = NotPacked
    /\ pc = "bytes"
    /\ disk = NoFiles
    /\ orig = NoFiles
    /\ cur = "A"
    /\ profile_count = 0
    /\ total_profile = 0
    /\ buf = <<>>
    /\ index = 0
    /\ package_size = 0
    /\ examined = <<>>
    /\ wlog = <<>>
    /\ calls = <<>>
    /\ runs = 0
    /\ first = NoRun
    /\ passes = 0
    /\ IngestIdle

\* what the codec's steps leave alone
Files4 == <<disk, orig, cur, profile_count, total_profile, buf, index,
            package_size, examined, wlog, calls, runs, first, passes,
            args, df, row, sent, printed, ingest_df, ingested_csv>>

\* acm_stop_time = unpack('>i', bytes)[0]; acm_stop_time = d + timedelta(seconds=...)
codec_decode ==
    /\ pc = "bytes"
    /\ \E u \in {unpack_i(time_bytes)} :
          /\ u.ok
          /\ time_stamp' = Decode(u.val)
    /\ pc' = "decoded"
    /\ UNCHANGED <<time_bytes, new_time_bytes>>
    /\ UNCHANGED Files4

\* if acm_stop_time < datetime(2018,1,1): acm_stop_time + relativedelta(years=80)
codec_add_years ==
    /\ pc = "decoded"
    /\ Before2018(time_stamp)
    /\ time_stamp' = AddYears(time_stamp, YearsAdded)
    /\ pc' = "added"
    /\ UNCHANGED <<time_bytes, new_time_bytes>>
    /\ UNCHANGED Files4

\* pack('>i', int((t - epoch).total_seconds())), of the datetime as decoded
\* or with the years added
codec_encode ==
    /\ pc \in {"decoded", "added"}
    /\ new_time_bytes' = pack_i(time_stamp)
    /\ pc' = IF pc = "decoded" THEN "packed" ELSE "packed_new"
    /\ UNCHANGED <<time_bytes, time_stamp>>
    /\ UNCHANGED Files4

CodecNext == codec_decode \/ codec_add_years \/ codec_encode

CodecSpec == CodecInit /\ [][CodecNext]_vars

-----------------------------------------------------------------------------
(* ingestions/ingest_csvs.py: main from the loaded ingest sheet to the      *)
(* results CSV, with the requests m2mSession makes for each row             *)

\* requests.codes.created
Created == 201
\* the least status code for which r.ok is False
ErrorStatus == 400

\* what a request comes to: an answer with a status code, or an exception
Status(code) == [kind |-> "status", code |-> code]
ConnectTimeout == [kind |-> "ConnectTimeout", code |-> 0]
ConnectionError == [kind |-> "ConnectionError", code |-> 0]
Replies == {Status(code) : code \in {200, 201, 404, 500}}
               \cup {ConnectTimeout, ConnectionError}

\* Python's None, as the value of r
None == [kind |-> "None", code |-> 0]

\* a row of the sheet: its parser column is a parser name, a commented-out
\* entry or, for an empty cell, read_csv's NaN; its reference designator is
\* of a cabled platform or not
Rows == [parserDriver : {"parser", "#parser", "nan"}, cabled : BOOLEAN]

\* rows of the ingest sheet
MaxRows == 3

\* the sheets of up to MaxRows rows
Sheets == UNION {[1..n -> Rows] : n \in 0..MaxRows}

\* the answers to 'Review ingest request. Is this correct? <y>/n: '
Reviews == {"y", "n"}

\* a request made of the API for row i, and a printed line
Request(method, i, reply) == [method |-> method, row |-> i, reply |-> reply]
Line(text, i, code) == [text |-> text, row |-> i, code |-> code]

\* what one pass of main's loop comes to: how it ends, the requests made,
\* the lines printed and the rows of results appended
Pass(end, requests, lines, results) ==
    [end |-> end, sent |-> requests, printed |-> lines, results |-> results]

IngestInit ==
    /\ args \in [debug : BOOLEAN, default_review : BOOLEAN, am_dates : BOOLEAN]
    /\ df \in Sheets
    /\ row = 0
    /\ sent = <<>>
    /\ printed = <<>>
    /\ ingest_df = <<>>
    /\ ingested_csv = NotWritten
    /\ pc = "main"
    /\ disk = NoFiles
    /\ orig = NoFiles
    /\ cur = "A"
    /\ profile_count = 0
    /\ total_profile = 0
    /\ buf = <<>>
    /\ index = 0
    /\ package_size = 0
    /\ examined = <<>>
    /\ wlog = <<>>
    /\ calls = <<>>
    /\ runs = 0
    /\ first = NoRun
    /\ passes = 0
    /\ CodecIdle

\* what the steps of main leave alone
Patchers == <<disk, orig, cur, profile_count, total_profile, buf, index,
              package_size, examined, wlog, calls, runs, first, passes,
              time_bytes, time_stamp, new_time_bytes>>

NotCabled(r) == ~r.cabled

\* the rows of cabled reference designators are dropped; with no row left
\* main returns
main_drop_cabled ==
    /\ pc = "main"
    /\ df' = SelectSeq(df, NotCabled)
    /\ IF df' = <<>>
       THEN /\ pc' = "returned"
            /\ row' = row
            /\ printed' = Append(printed, Line("Removed cabled array reference designators", 0, 0))
       ELSE /\ pc' = "loop"
            /\ row' = 1
            /\ printed' = printed
    /\ UNCHANGED <<args, sent, ingest_df, ingested_csv>>
    /\ UNCHANGED Patchers

\* m2mSession.get_deployment_dates, through get_sensor_information: the
\* ConnectTimeout is caught and exits, any other exception propagates
get_deployment_dates(got) ==
    IF got = ConnectTimeout THEN "exited"
    ELSE IF got.kind # "status" THEN "raised"
    ELSE "return"

\* m2mSession.ingest_data: how the call ends, the r it returns and whether
\* the request was posted
ingest_data(debug, reply) ==
    IF debug
    THEN [end |-> "return", r |-> None, posted |-> FALSE]
    ELSE IF reply = ConnectTimeout
    THEN [end |-> "exited", r |-> None, posted |-> TRUE]
    ELSE IF reply.kind # "status"
    THEN [end |-> "raised", r |-> None, posted |-> TRUE]
    ELSE [end |-> "return",
          r |-> IF reply.code < ErrorStatus THEN reply ELSE None,
          posted |-> TRUE]

\* the lines printed by the call of ingest_data and by main around it
CallLines(debug, reviewed, call, i) ==
    (IF reviewed THEN <<Line("ingest_dict", i, 0)>> ELSE <<>>)
        \o (IF debug THEN <<Line("submit to ingest", i, 0)>> ELSE <<>>)
        \o (IF reviewed /\ call.end = "return"
            THEN <<Line("r", i, call.r.code)>> ELSE <<>>)

\* 'add the ingest results to the data frame if a successful request was made'
add_results(debug, requests, lines, r, i) ==
    IF debug
    THEN Pass("next", requests, lines, <<>>)
    ELSE IF r # None /\ r.code = Created
    THEN Pass("next", requests, lines, <<i>>)
    ELSE IF r = None
    THEN Pass("raised", requests, lines, <<>>)
    ELSE Pass("next", requests,
              lines \o <<Line("Request failed with status code", i, r.code),
                         Line("r.json()", i, r.code)>>,
              <<>>)

\* the call of ingest_data made, the pass ends with it or goes on to the results
add_or_end(a, gets, call, reply, i) ==
    IF call.end # "return"
    THEN Pass(call.end,
              gets \o <<Request("POST", i, reply)>>,
              CallLines(a.debug, ~a.default_review, call, i), <<>>)
    ELSE add_results(a.debug,
                     gets \o (IF call.posted THEN <<Request("POST", i, reply)>> ELSE <<>>),
                     CallLines(a.debug, ~a.default_review, call, i),
                     call.r, i)

\* from 'if default_review:' to the end of the pass
submit(a, gets, review, reply, i) ==
    IF ~a.default_review /\ review = "n"
    THEN Pass("next", gets,
              <<Line("ingest_dict", i, 0), Line("Skipping this ingest request", i, 0)>>,
              <<>>)
    ELSE add_or_end(a, gets, ingest_data(a.debug, reply), reply, i)

\* a pass of the loop 'for row in df.iterrows()' at row i
row_pass(a, r, i, review, got, reply) ==
    IF r.parserDriver = "nan"
    THEN Pass("raised", <<>>, <<>>, <<>>)
    ELSE IF r.parserDriver = "#parser"
    THEN Pass("next", <<>>, <<>>, <<>>)
    ELSE IF r.parserDriver = ""
    THEN Pass("next", <<>>, <<>>, <<>>)
    ELSE IF a.am_dates /\ get_deployment_dates(got) # "return"
    THEN Pass(get_deployment_dates(got), <<Request("GET", i, got)>>, <<>>, <<>>)
    ELSE submit(a, IF a.am_dates THEN <<Request("GET", i, got)>> ELSE <<>>,
                review, reply, i)

main_row ==
    /\ pc = "loop"
    /\ row <= Len(df)
    /\ \E review \in Reviews : \E got \in Replies : \E reply \in Replies :
         \E pass \in {row_pass(args, df[row], row, review, got, reply)} :
            /\ pc' = IF pass.end = "next" THEN "loop" ELSE pass.end
            /\ row' = IF pass.end = "next" THEN row + 1 ELSE row
            /\ sent' = sent \o pass.sent
            /\ printed' = printed \o pass.printed
            /\ ingest_df' = ingest_df \o pass.results
    /\ UNCHANGED <<args, df, ingested_csv>>
    /\ UNCHANGED Patchers

\* 'save the results'
main_save ==
    /\ pc = "loop"
    /\ row > Len(df)
    /\ printed' = Append(printed, Line("ingest_df", 0, 0))
    /\ ingested_csv' = [written |-> TRUE, rows |-> ingest_df]
    /\ pc' = "saved"
    /\ UNCHANGED <<args, df, row, sent, ingest_df>>
    /\ UNCHANGED Patchers

IngestNext == main_drop_cabled \/ main_row \/ main_save

IngestSpec == IngestInit /\ [][IngestNext]_vars

-----------------------------------------------------------------------------
(* Properties *)

\* the file of the current (or last) invocation
CurName == FileName(cur, profile_count)

\* the patcher returned or raised
Finished == pc \in {"returned", "raised"}

\* the 4 bytes at offset off
FieldAt(bytes, off) == Slice(bytes, off, off + 4)

\* the value of 4 bytes
ValueOf(bs) == unpack_i(bs).val

\* the 4 bytes bs hold the value v plus 80 calendar years
HoldsPlus80(bs, v) ==
    /\ unpack_i(bs).ok
    /\ Decode(ValueOf(bs)) = AddYears(Decode(v), YearsAdded)

\* the value v decodes to an instant before 2018-01-01
Early(v) == Before2018(Decode(v))

\* bytes a and b are equal except at the offsets of the set offs
SameExcept(a, b, offs) ==
    /\ Len(a) = Len(b)
    /\ \A i \in 1..Len(a) : (i - 1) \notin offs => a[i] = b[i]

(* C1: every field a patcher locates differs on disk after the run if and   *)
(* only if its value is before 2018 (and, in an A-file, profile_count <=    *)
(* 178), and then holds the value plus 80 years.                            *)
C1_FieldAsClaimed(before, after) ==
    IF Early(ValueOf(before)) /\ (cur = "A" => profile_count <= GateProfile)
    THEN after # before /\ HoldsPlus80(after, ValueOf(before))
    ELSE after = before

C1_CorrectedIffEarly ==
    (runs = 1 /\ Finished /\ Present(orig, CurName)) =>
        \A i \in 1..Len(examined) :
            C1_FieldAsClaimed(FieldAt(orig[CurName], examined[i].off),
                              FieldAt(disk[CurName], examined[i].off))

(* C2: the buffer written back has the length of the buffer read: no file   *)
(* changes its length, and the bytearray in memory keeps the file's length. *)
C2_LengthPreserved ==
    /\ DOMAIN disk = DOMAIN orig
    /\ \A name \in DOMAIN disk : Len(disk[name]) = Len(orig[name])
    /\ pc \in {"E_loop", "E_tail", "M_loop", "M_tail"} =>
           Len(buf) = Len(orig[CurName])

\* a patcher corrected a field and wrote the file
C2_Witness == wlog # <<>> /\ disk # orig /\ Finished

(* C3, as amended: a second invocation in succession leaves the bytes the   *)
(* first one left (a field corrected in the first pass either fails the     *)
(* predicate in the second, or makes the second pass raise before writing). *)
C3_Idempotent == (runs >= 2 /\ Finished) => disk = first.disk

\* the first pass corrected the file, the second one returned
C3_Witness ==
    /\ runs = 2 /\ pc = "returned"
    /\ first.pc = "returned" /\ first.disk # orig
    /\ disk = first.disk

\* the field at offset off was corrected by the first pass, which wrote it
C3_CorrectedBefore(off) ==
    /\ first.pc = "returned"
    /\ \E j \in 1..Len(first.examined) :
          first.examined[j].off = off /\ first.examined[j].hit

(* C3 as stated: twice is the same as once, because every field corrected   *)
(* in the first pass fails the earlier-than-2018 predicate in the second.   *)
C3_IdempotentBecauseLate ==
    /\ C3_Idempotent
    /\ runs = 2 =>
         \A i \in 1..Len(examined) :
            C3_CorrectedBefore(examined[i].off) => ~Early(examined[i].was)

(* C4: an A-file with a stop time before 2018 is left unchanged when        *)
(* profile_count > 178, and has its last 4 bytes replaced by the value plus *)
(* 80 years, no other byte changed, when profile_count <= 178.              *)
C4_Gated(before, after) ==
    IF profile_count > GateProfile
    THEN after = before
    ELSE /\ HoldsPlus80(Slice(after, -4, Len(after)), ValueOf(Slice(before, -4, Len(before))))
         /\ SameExcept(before, after, (Len(before) - 4)..(Len(before) - 1))

C4_SequenceGate ==
    (/\ cur = "A" /\ runs = 1 /\ Finished
     /\ Present(orig, CurName)
     /\ Len(orig[CurName]) >= 4
     /\ Early(ValueOf(Slice(orig[CurName], -4, Len(orig[CurName])))))
        => C4_Gated(orig[CurName], disk[CurName])

(* C5: in a C-file with the sentinel followed by two timestamps before 2018 *)
(* exactly the bytes at sentinel+11..14 and sentinel+15..18 are replaced,   *)
(* by the values plus 80 years; the bytes before them are unchanged.        *)
C5_Located(before, after, at) ==
    /\ HoldsPlus80(FieldAt(after, at + SentinelLen), ValueOf(FieldAt(before, at + SentinelLen)))
    /\ HoldsPlus80(FieldAt(after, at + SentinelLen + 4),
                   ValueOf(FieldAt(before, at + SentinelLen + 4)))
    /\ SameExcept(before, after, (at + SentinelLen)..(at + SentinelLen + 7))

C5_HasFields(before, at) ==
    /\ at >= 0
    /\ Len(before) >= at + SentinelLen + 8
    /\ Early(ValueOf(FieldAt(before, at + SentinelLen)))
    /\ Early(ValueOf(FieldAt(before, at + SentinelLen + 4)))

C5_SentinelLocation ==
    (/\ cur = "C" /\ runs = 1 /\ Finished
     /\ Present(orig, CurName)
     /\ C5_HasFields(orig[CurName], Find(orig[CurName], Sentinel)))
        => C5_Located(orig[CurName], disk[CurName], Find(orig[CurName], Sentinel))

\* the offset of the field logged last
LastOff(ex) == ex[Len(ex)].off

\* the record at the walk index of process_e_file starts with a message code
StartsWithCode == Slice(buf, index, index + 4) \in profile_message_code

\* the walk of process_e_file took the record at index, examined the field
\* at index + field and goes on to the record at index + stride
C6_Walked(field, stride) ==
    /\ index' = index + stride
    /\ examined' # <<>>
    /\ LastOff(examined') = index + field
    /\ Len(examined') = Len(examined) + 1

(* C6, as amended: in the walk of process_e_file a record that starts with  *)
(* a message code has its timestamp at record offset +8 and the next record *)
(* is examined at record offset +16; any other record has the timestamp in  *)
(* its first 4 bytes and the next record is examined at record offset +30.  *)
C6_RecordLayout ==
    [][(pc = "E_loop" /\ pc' = "E_loop") =>
          IF StartsWithCode THEN C6_Walked(8, 16) ELSE C6_Walked(0, 30)]_vars

\* the walk went over a message-code record at 24 and a telemetry record at 40
C6_Witness ==
    /\ pc = "E_loop" /\ index = 70
    /\ Len(examined) = 4
    /\ examined[3].off = 32 /\ examined[4].off = 40
    /\ buf[25] = 255

(* C6 as stated: after a message-code record (the code and an 8-byte        *)
(* payload) the next record is examined at record offset +12.               *)
C6_RecordLayout12 ==
    [][(pc = "E_loop" /\ pc' = "E_loop") =>
          IF StartsWithCode THEN C6_Walked(8, 12) ELSE C6_Walked(0, 30)]_vars

\* the reference E-file with every field 80 years later
RefE16Corrected ==
    EHeader(T2020, T2020) \o MessageRecord(T2020) \o TelemetryRecord(T2020)
        \o EndMarker
RefE12Corrected ==
    EHeader(T2020, T2020) \o MessageRecord12(T2020) \o TelemetryRecord(T2020)
        \o EndMarker

C7_Expected(before) ==
    IF before = RefE16 THEN RefE16Corrected ELSE RefE12Corrected

(* C7: on the reference E-file (header fields at 16 and 20, a message-code  *)
(* record, a telemetry record, the end marker as the last 4 bytes)          *)
(* process_e_file does not raise and writes back the file with exactly the  *)
(* four fields 80 years later.                                              *)
C7_ReferenceWalk ==
    (/\ cur = "E" /\ runs = 1 /\ Finished
     /\ Present(orig, CurName)
     /\ orig[CurName] \in {RefE16, RefE12})
        => /\ pc = "returned"
           /\ disk[CurName] = C7_Expected(orig[CurName])

\* size r, three records of r bytes and the two trailing fields, all 1940
C8_File(r, w) ==
    BE2(r) \o MRecord(r, w) \o MRecord(r, w) \o MRecord(r, w) \o BE4(w) \o BE4(w)

(* C8: on an M-file of the record size, three records that start with a     *)
(* timestamp before 2018 and the two trailing fields, process_m_file        *)
(* corrects the three record timestamps and both trailing fields.           *)
C8_StrideWalk ==
    \A r \in MSizes :
        (/\ cur = "M" /\ runs = 1 /\ Finished
         /\ Present(orig, CurName)
         /\ orig[CurName] = C8_File(r, T1940))
            => /\ pc = "returned"
               /\ disk[CurName] = C8_File(r, T2020)

(* C9, as amended: the walk of process_m_file examines the record at index  *)
(* when more than 64 bytes remain from index, and leaves the loop, without  *)
(* examining it, when 64 or fewer remain: a record with exactly 64 bytes    *)
(* remaining is not processed.                                              *)
C9_WalkBound ==
    [][pc = "M_loop" =>
          IF Len(buf) - index > 64
          THEN /\ pc' \in {"M_loop", "raised"}
               /\ examined' # <<>>
               /\ LastOff(examined') = index
          ELSE /\ pc' = "M_tail"
               /\ examined' = examined
               /\ buf' = buf]_vars

\* the walk stopped at an index with exactly 64 bytes remaining, after it
\* had examined a record
C9_Witness ==
    /\ pc = "M_tail"
    /\ Len(buf) - index = 64
    /\ examined # <<>>
    /\ index = 2 + package_size

(* C9 as stated: the record at index is examined as long as at least 64     *)
(* bytes remain, so with exactly 64 bytes remaining it is still processed.  *)
C9_WalkBoundAtLeast64 ==
    [][pc = "M_loop" =>
          IF Len(buf) - index >= 64
          THEN /\ pc' \in {"M_loop", "raised"}
               /\ examined' # <<>>
               /\ LastOff(examined') = index
          ELSE pc' = "M_tail"]_vars

\* the numbers the driver's loop runs over, from the names in the directory
C10_Numbers == IF file_list(orig) = {} THEN {} ELSE 0..Largest(file_list(orig))

\* what the patcher of a file leaves of it when nothing else interferes
C10_Alone(name) ==
    IF orig[name] # GoodFile(name[1]) THEN orig[name]
    ELSE CASE name[1] = "A" -> <<Pad>> \o BE4(T2020)
           [] name[1] = "C" -> <<1, 2>> \o Sentinel \o BE4(T2020) \o BE4(T2020)
           [] name[1] = "E" -> EHeader(T2020, T2020) \o MessageRecord(T2020)
                                 \o TelemetryRecord(T2020) \o EndMarker \o Fill(4, Pad)
                                 \o BE4(T2020) \o BE4(T2020)
           [] name[1] = "M" -> BE2(30) \o MRecord(30, T2020) \o MRecord(30, T2020)
                                 \o MRecord(30, T1940) \o BE4(T2020) \o BE4(T2020)

\* the file x<n>.DAT is absent, nothing was written for it, and the other
\* three patchers were invoked for n and left what they leave alone
C10_Tolerated(x, n) ==
    /\ ~Present(disk, FileName(x, n))
    /\ \A i \in 1..Len(wlog) : wlog[i] # FileName(x, n)
    /\ \A y \in Prefixes \ {x} :
          /\ \E i \in 1..Len(calls) : calls[i] = FileName(y, n)
          /\ Present(orig, FileName(y, n)) =>
                disk[FileName(y, n)] = C10_Alone(FileName(y, n))

(* C10: when T<n>.DAT is absent its patcher returns without raising or      *)
(* writing, and the driver still invokes the patchers of the other three    *)
(* types for n, with the results they have on their own.                    *)
C10_MissingFileTolerated ==
    pc \in {"done", "crashed"} =>
        \A n \in C10_Numbers : \A x \in Prefixes :
            ~Present(orig, FileName(x, n)) => C10_Tolerated(x, n)

\* some field examined by the invocation was eligible for correction
SomeFieldHit == \E i \in 1..Len(examined) : examined[i].hit

(* C11: a patcher writes its file only when at least one field was          *)
(* corrected; when no field is eligible (all located timestamps at or after *)
(* 2018, or the A-file gate fails) there is no write at all.                *)
C11_NoWriteWhenUnchanged ==
    (runs = 1 /\ Finished) => (wlog # <<>> => SomeFieldHit)

\* the calls of a complete run over the numbers 0..max: A, C, E, M for 0,
\* then for 1, and so on
CallsInOrder(max) ==
    [i \in 1..(4 * (max + 1)) |->
        FileName(<<"A", "C", "E", "M">>[((i - 1) % 4) + 1], (i - 1) \div 4)]

\* the driver has ended on a directory in which it found a file name
DriverEnded == pc \in {"done", "crashed"} /\ file_list(orig) # {}

(* C12: with max the largest profile number found in the directory, the     *)
(* driver visits 0, 1, ..., max once each in ascending order and invokes    *)
(* for each number the four patchers in the order A, C, E, M.               *)
C12_DriverSequencing ==
    DriverEnded => calls = CallsInOrder(Largest(file_list(orig)))

(* C13: when a patcher fails on a file (raises), the driver goes on: it     *)
(* calls the next patcher, or is done when that was the last call; a        *)
(* failure never ends the run early.                                        *)
C13_FailureIsolation ==
    [][pc = "raised" => pc' \in {"call", "done"}]_vars

(* C14: every patcher invocation finishes after a number of steps bounded   *)
(* by the file length: a walk makes no more passes of its loop than the     *)
(* file has bytes, for every M record size (0 included) and every length.   *)
C14_BoundedSteps == passes <= Len(buf)

(* C15: decoding 4 bytes (a signed 32-bit n) as the instant 1970-01-01 plus *)
(* n seconds and encoding that instant again as whole seconds since the     *)
(* epoch, packed big-endian, gives the same 4 bytes (and so the same n).    *)
C15_CodecRoundTrip ==
    pc = "packed" =>
        /\ new_time_bytes.ok
        /\ new_time_bytes.bytes = time_bytes
        /\ unpack_i(new_time_bytes.bytes) = unpack_i(time_bytes)

\* the least value, a negative instant with a time of day, went round
C15_Witness ==
    /\ pc = "packed"
    /\ time_bytes = <<128, 0, 0, 0>>
    /\ time_stamp = [year |-> 1901, month |-> 12, day |-> 13, secs |-> 74752]
    /\ new_time_bytes.bytes = <<128, 0, 0, 0>>

\* the instant the codec decoded from time_bytes
Decoded == Decode(ValueOf(time_bytes))

(* C16: the corrected instant of an eligible instant has the year plus 80   *)
(* and the same month, day of month and time of day: no day is clamped.     *)
C16_CalendarYears ==
    pc = "added" =>
        /\ time_stamp.year = Decoded.year + 80
        /\ time_stamp.month = Decoded.month
        /\ time_stamp.day = Decoded.day
        /\ time_stamp.secs = Decoded.secs

\* 80 years were added to the last second of a 29 February
C16_Witness ==
    /\ pc = "added"
    /\ Decoded.month = 2 /\ Decoded.day = 29 /\ Decoded.secs = 86399
    /\ time_stamp.day = 29

\* the field logged at i was rewritten by the invocation
Rewritten(i) == examined[i].now # examined[i].was

\* the instant of v is in the year y or later
NotBeforeYear(v, y) == ~BeforeYear(Decode(v), y)

(* C17, as amended: a field that a patcher rewrites holds a value at or     *)
(* after 2018-01-01 exactly when its original value is at or after          *)
(* 1938-01-01; an original value before 1938 is rewritten to a value before *)
(* 2018, for which the correction predicate still holds.                    *)
C17_LandsFrom1938 ==
    \A i \in 1..Len(examined) :
        Rewritten(i) =>
            (NotBeforeYear(examined[i].now, ThresholdYear)
                <=> NotBeforeYear(examined[i].was, ThresholdYear - YearsAdded))

\* a patcher rewrote the last second of 1937 to the last second of 2017 and
\* wrote the file
C17_Witness ==
    /\ pc = "returned" /\ wlog # <<>>
    /\ \E i \in 1..Len(examined) :
          /\ Rewritten(i)
          /\ examined[i].was = T1937Last
          /\ examined[i].now = T2017Last

(* C17 as stated: every value a patcher rewrites decodes to an instant at   *)
(* or after 2018-01-01, so the correction predicate is false for it.        *)
C17_LandsAfter2018 ==
    \A i \in 1..Len(examined) :
        Rewritten(i) => NotBeforeYear(examined[i].now, ThresholdYear)

\* the 4-byte fields at offsets a and b share no byte
Apart(a, b) == a + 4 <= b \/ b + 4 <= a

(* C18: within one invocation no byte is read as part of a timestamp field  *)
(* more than once: the fields examined are pairwise non-overlapping, for    *)
(* every buffer and every M record size.                                    *)
C18_ExactlyOnce ==
    \A i \in 1..Len(examined) : \A j \in 1..Len(examined) :
        i # j => Apart(examined[i].off, examined[j].off)

\* what process_c_file leaves on disk of a file with these bytes
c_result(bytes) ==
    IF c_patch(bytes, Find(bytes, Sentinel)).raised
    THEN bytes
    ELSE c_patch(bytes, Find(bytes, Sentinel)).buf

\* offsets of the start time and of the stop time after the sentinel
StartOff(bytes) == Find(bytes, Sentinel) + SentinelLen
StopOff(bytes) == StartOff(bytes) + 4

\* the bytes with the field at off replaced by the value w
WithField(bytes, off, w) == SliceAssign(bytes, off, off + 4, BE4(w))

\* the field at off is corrected in after: it differs from the one in before
CorrectedAt(before, after, off) == FieldAt(after, off) # FieldAt(before, off)

\* a C-file with the sentinel and both fields after it
C19_HasBoth(bytes) ==
    Find(bytes, Sentinel) >= 0 /\ Len(bytes) >= StopOff(bytes) + 4

\* on the file of this run and on the same file with another value w in the
\* field at other, the field at off ends up corrected alike
C19_SameWith(before, after, off, other, w) ==
    CorrectedAt(before, after, off)
        <=> CorrectedAt(WithField(before, other, w),
                        c_result(WithField(before, other, w)), off)

(* C19: in a C-file, whether the start time ends up corrected on disk       *)
(* depends only on the start time, and whether the stop time ends up        *)
(* corrected only on the stop time: with any other value in the other field *)
(* the outcome for the field is the same.                                   *)
C19_FieldsIndependent ==
    (/\ cur = "C" /\ runs = 1 /\ Finished
     /\ Present(orig, CurName)
     /\ C19_HasBoth(orig[CurName]))
        => \A w \in Words :
              /\ C19_SameWith(orig[CurName], disk[CurName],
                              StartOff(orig[CurName]), StopOff(orig[CurName]), w)
              /\ C19_SameWith(orig[CurName], disk[CurName],
                              StopOff(orig[CurName]), StartOff(orig[CurName]), w)

\* the walk of process_e_file is at a record boundary that holds the marker
AtEndMarker == Slice(buf, index, index + 4) = EndMarker

(* C20: on an E-file of at least 24 bytes the record walk from offset 24    *)
(* does not raise: each step either goes on with a strictly larger index or *)
(* ends the walk, and it ends it only at a record boundary that holds       *)
(* 0xFFFFFFFF or with the index at or past the end of the buffer.           *)
C20_WalkEnds ==
    [][(pc = "E_loop" /\ Len(buf) >= 24) =>
          \/ pc' = "E_loop" /\ index' > index
          \/ pc' = "E_tail" /\ index' = index
                /\ (AtEndMarker \/ index >= Len(buf))]_vars

(* C21: as the docstring states, process_a_file applies from profile 178    *)
(* on: for every profile number >= 178 whose A-file stop time is before     *)
(* 2018, the stop time is increased by 80 years.                            *)
C21_FromProfile178 ==
    (/\ cur = "A" /\ runs = 1 /\ Finished
     /\ Present(orig, CurName)
     /\ Len(orig[CurName]) >= 4
     /\ profile_count >= GateProfile
     /\ Early(ValueOf(Slice(orig[CurName], -4, Len(orig[CurName])))))
        => HoldsPlus80(Slice(disk[CurName], -4, Len(disk[CurName])),
                       ValueOf(Slice(orig[CurName], -4, Len(orig[CurName]))))

(* C22: on a directory with no file that matches the naming patterns the    *)
(* driver completes without raising and modifies no file.                   *)
C22_EmptyInput ==
    (file_list(orig) = {} /\ pc # "scan") => (pc = "done" /\ disk = orig)

\* the profile numbers in the names of the files of the four types
FourTypeNumbers(d) == {name[2] : name \in {nm \in DOMAIN d : nm[1] \in Prefixes}}

(* C23: the upper bound of the driver's loop is the largest number in a     *)
(* name of one of the four types A, C, E, M; a .DAT file with another       *)
(* prefix never raises it.                                                  *)
C23_MaxOfFourTypes ==
    (pc # "scan" /\ FourTypeNumbers(orig) # {}) =>
        total_profile = Largest(FourTypeNumbers(orig))

\* the directory as it was when the current invocation was made
AtCall == IF runs <= 1 THEN orig ELSE first.disk

\* the invocation raised at pack: the field logged last was eligible and
\* keeps its value
EncodingFailed ==
    /\ pc = "raised"
    /\ examined # <<>>
    /\ examined[Len(examined)].hit
    /\ examined[Len(examined)].now = examined[Len(examined)].was

(* C24: when re-encoding a corrected value fails inside a patcher, the file *)
(* on disk is byte for byte as it was before the call, fields already       *)
(* corrected in memory included: no partially patched buffer is written.    *)
C24_UnchangedOnEncodingFailure ==
    (EncodingFailed /\ cur \in Prefixes /\ runs >= 1) =>
        /\ disk = AtCall
        /\ runs = 1 => wlog = <<>>

\* pack failed after an earlier field of the same file had been corrected in
\* the buffer
C24_Witness ==
    /\ EncodingFailed /\ runs = 1
    /\ Present(orig, CurName)
    /\ \E i \in 1..Len(examined) : Rewritten(i)
    /\ buf # orig[CurName]
    /\ disk = orig

(* C25: for every 32-bit value that decodes to an instant before 2018, the  *)
(* value plus 80 years is again a signed 32-bit integer: packing the        *)
(* corrected value with '>i' never fails.                                   *)
C25_StaysInRange == pc = "packed_new" => new_time_bytes.ok

\* 29,220 days after the day of the instant decoded
ShiftedDay == EpochDays(Decoded) + 29220

(* C26: for every 32-bit value n that decodes to an instant before 2018,    *)
(* the shift by 80 calendar years is the shift by 29,220 days (2,524,608,000 *)
(* seconds), whatever the date: the time of day is kept and the day count   *)
(* grows by 29,220; where the result fits 32 bits its value is              *)
(* n + 2524608000.                                                          *)
C26_ConstantShift ==
    /\ pc \in {"added", "packed_new"} =>
          /\ EpochDays(time_stamp) = ShiftedDay
          /\ time_stamp.secs = Decoded.secs
    /\ (pc = "packed_new" /\ new_time_bytes.ok) =>
          ValueOf(new_time_bytes.bytes)
              = (ValueOf(time_bytes) + 2147483647) + 377124353

\* the shift was applied to the last second of 29 February 1904 and packed
C26_Witness ==
    /\ pc = "packed_new" /\ new_time_bytes.ok
    /\ Decoded = [year |-> 1904, month |-> 2, day |-> 29, secs |-> 86399]
    /\ time_stamp.year = 1984

(* C27: on a C-file that holds no run of eleven 0xFF bytes process_c_file   *)
(* changes no byte and takes no offset for a start-time or stop-time field. *)
C27_NoSentinelNoChange ==
    (/\ cur = "C" /\ runs = 1 /\ Finished
     /\ Present(orig, CurName)
     /\ Find(orig[CurName], Sentinel) = -1)
        => /\ disk[CurName] = orig[CurName]
           /\ examined = <<>>

\* the patcher of x was invoked for the number n
Called(x, n) == \E i \in 1..Len(calls) : calls[i] = FileName(x, n)

\* process_c_file was invoked for n on the C-file that makes it raise
C28_Raised(n) ==
    /\ Present(orig, FileName("C", n))
    /\ orig[FileName("C", n)] = BadFile("C")
    /\ Called("C", n)

(* C28: an exception raised while patching C<n>.DAT is swallowed by the     *)
(* driver and leaves C<n>.DAT unwritten, and the driver goes on to invoke   *)
(* process_e_file and process_m_file for n and then the patchers of all     *)
(* later profile numbers.                                                   *)
C28_CFileErrorsContained ==
    DriverEnded =>
        \A n \in 0..Largest(file_list(orig)) :
            C28_Raised(n) =>
                /\ disk[FileName("C", n)] = orig[FileName("C", n)]
                /\ \A i \in 1..Len(wlog) : wlog[i] # FileName("C", n)
                /\ Called("E", n) /\ Called("M", n)
                /\ \A m \in (n + 1)..Largest(file_list(orig)) :
                      \A x \in Prefixes : Called(x, m)

\* an ingest request posted for a row
IsPost(q) == q.method = "POST"

\* a posted ingest request that the server answered with a status other
\* than created
Refused(q) == IsPost(q) /\ q.reply.kind = "status" /\ q.reply.code # Created

\* main has ended by an exception or by sys.exit
Aborted == pc \in {"raised", "exited"}

(* C29: when an ingest request is posted (not a dry run) and the server     *)
(* answers with a non-success status, main prints 'Request failed with      *)
(* status code ...' for that row and goes on with the next row; the failed  *)
(* request does not abort the loop, and once the rows are passed the        *)
(* results CSV is written.                                                  *)
C29_FailedRequestReported ==
    /\ \A k \in 1..Len(sent) :
          Refused(sent[k]) =>
              /\ \E j \in 1..Len(printed) :
                    printed[j] = Line("Request failed with status code",
                                      sent[k].row, sent[k].reply.code)
              /\ row > sent[k].row
              /\ ~(Aborted /\ row = sent[k].row)
    /\ pc = "saved" => ingested_csv.written

(* C30: in a dry run (--debug) no ingest request is ever posted for any     *)
(* row of the sheet, and main passes all rows without raising, whether      *)
(* --default_review is set or not.                                          *)
C30_DryRun ==
    args.debug =>
        /\ \A k \in 1..Len(sent) : ~IsPost(sent[k])
        /\ ~Aborted

====
